---- MODULE Spec2Model ----
(***************************************************************************)
(* A model of traffic/traffic_info.cpp: the RoadSegmentId and SpeedGroup   *)
(* codecs, the Coloring update and the fetch / Availability state machine  *)
(* of TrafficInfo.                                                         *)
(*                                                                         *)
(* A RoadSegmentId is the tuple <<m_fid, m_idx, m_dir>>.  A byte buffer is *)
(* a sequence of numbers 0..255, a bit stream a sequence of 0/1 in the     *)
(* order BitWriter emits them (least significant bit of each byte first).  *)
(***************************************************************************)
EXTENDS Integers, Sequences, FiniteSets, TLC

----------------------------------------------------------------------------
(* Bounds of the model *)

\* longest key list handed to SerializeTrafficKeys
MaxKeys == 4
\* longest value list handed to SerializeTrafficValues
MaxVals == 3
\* largest m_idx of the key universe
MaxIdx == 2
\* width of m_fid arithmetic (uint32_t in the source); scaled so that the
\* modulus stays inside TLC's integers
FidBits == 3
\* width of the 64-bit versions compared in ProcessFailure, scaled likewise
VersionBits == 5
\* most features, and most segments of a feature, that a keys buffer of
\* any origin names
MaxRawRuns == 2
MaxRawSegs == 2
\* longest key list handed to CombineColorings
MaxCombineKeys == 2
\* width of size_t counters, scaled like FidBits
SizeBits == 4
\* longest key list of a TrafficInfo and longest value list the server sends
MaxSyncKeys == 2
MaxSyncVals == 2
\* largest version a 404 body names
MaxServerVersion == 3

----------------------------------------------------------------------------
(* Program constants *)

kLatestKeysVersion == 0
kLatestValuesVersion == 0
kForwardDirection == 0
kReverseDirection == 1
\* SpeedGroup::Count, the exclusive upper bound of the enumeration
\* (G0..G5, TempBlock, Unknown); SpeedGroup::Unknown is the last member.
numSpeedGroups == 8
SpeedGroupUnknown == 7
\* uint16_t m_idx
IdxModulus == 65536

----------------------------------------------------------------------------
(* coding/ primitives: varint, bit streams, Elias gamma code, zlib *)

RECURSIVE Pow2(_)
Pow2(n) == IF n = 0 THEN 1 ELSE 2 * Pow2(n - 1)

FidModulus == Pow2(FidBits)

RECURSIVE FloorLog(_)
FloorLog(v) == IF v <= 1 THEN 0 ELSE 1 + FloorLog(v \div 2)

\* the low n bits of v, least significant first (BitWriter::Write order)
LowBits(v, n) == [i \in 1..n |-> (v \div Pow2(i - 1)) % 2]

RECURSIVE BitsValue(_)
BitsValue(bits) ==
  IF Len(bits) = 0 THEN 0 ELSE bits[1] + 2 * BitsValue(Tail(bits))

\* BitWriter: bytes are filled from bit 0 up; the destructor flushes the
\* last, partly filled byte with zero padding.
RECURSIVE BitsToBytes(_)
BitsToBytes(bits) ==
  IF Len(bits) = 0 THEN <<>>
  ELSE LET n == IF Len(bits) < 8 THEN Len(bits) ELSE 8
       IN  <<BitsValue(SubSeq(bits, 1, n))>>
             \o BitsToBytes(SubSeq(bits, n + 1, Len(bits)))

\* BitReader over the bytes data[from..]: the bits in reading order
RECURSIVE BytesToBits(_, _)
BytesToBits(data, from) ==
  IF from > Len(data) THEN <<>>
  ELSE LowBits(data[from], 8) \o BytesToBits(data, from + 1)

\* bytes the BitReader has pulled from the source after reading bp bits
BytesPulled(bp) == (bp + 7) \div 8

RECURSIVE WriteVarUint(_)
WriteVarUint(v) ==
  IF v > 127 THEN <<(v % 128) + 128>> \o WriteVarUint(v \div 128) ELSE <<v>>

\* ReadVarUint from data at byte pos; ok = FALSE when the source runs out
\* (the reader throws).
RECURSIVE ReadVarUintFrom(_, _, _, _)
ReadVarUintFrom(data, pos, shift, acc) ==
  IF pos > Len(data) THEN [ok |-> FALSE, value |-> 0, pos |-> pos]
  ELSE LET b    == data[pos]
           acc2 == acc + (b % 128) * Pow2(shift)
       IN  IF b >= 128 THEN ReadVarUintFrom(data, pos + 1, shift + 7, acc2)
           ELSE [ok |-> TRUE, value |-> acc2, pos |-> pos + 1]

ReadVarUint(data, pos) == ReadVarUintFrom(data, pos, 0, 0)

\* GammaCoder::Encode(value), value >= 1: FloorLog(value) zeros, a one, then
\* the low FloorLog(value) bits of value.
GammaEncode(v) ==
  [i \in 1..FloorLog(v) |-> 0] \o <<1>> \o LowBits(v, FloorLog(v))

\* zeros before the first one bit after position bp; -1 when the stream ends
RECURSIVE ZerosAt(_, _)
ZerosAt(bits, bp) ==
  IF bp + 1 > Len(bits) THEN -1
  ELSE IF bits[bp + 1] = 1 THEN 0
  ELSE LET r == ZerosAt(bits, bp + 1) IN IF r < 0 THEN -1 ELSE r + 1

\* the rest of a gamma code after its n leading zeros and the one bit
GammaTail(bits, bp, n) ==
  IF n < 0 \/ bp + 2 * n + 1 > Len(bits)
  THEN [ok |-> FALSE, value |-> 0, bp |-> bp]
  ELSE [ok |-> TRUE,
        value |-> Pow2(n) + BitsValue(SubSeq(bits, bp + n + 2, bp + 2 * n + 1)),
        bp |-> bp + 2 * n + 1]

\* GammaCoder::Decode at bit position bp; ok = FALSE when the reader throws
GammaDecode(bits, bp) == GammaTail(bits, bp, ZerosAt(bits, bp))

\* n consecutive gamma codes from bit position bp, appended to acc
RECURSIVE GammaDecodeInto(_, _, _, _)
GammaDecodeNext(bits, n, acc, g) ==
  IF ~g.ok THEN [ok |-> FALSE, vals |-> <<>>, bp |-> g.bp]
  ELSE GammaDecodeInto(bits, g.bp, n - 1, Append(acc, g.value))

GammaDecodeInto(bits, bp, n, acc) ==
  IF n = 0 THEN [ok |-> TRUE, vals |-> acc, bp |-> bp]
  ELSE GammaDecodeNext(bits, n, acc, GammaDecode(bits, bp))

GammaDecodeMany(bits, bp, n) == GammaDecodeInto(bits, bp, n, <<>>)

RECURSIVE SumBytes(_)
SumBytes(b) == IF Len(b) = 0 THEN 0 ELSE b[1] + SumBytes(Tail(b))

\* coding::ZLib as a framed container: a header byte, the payload and a
\* checksum byte.  Inflate of anything else produces no output.
ZChecksum(b) == (1 + SumBytes(b)) % 251

Deflate(b) == <<120>> \o b \o <<ZChecksum(b)>>

Inflate(d) ==
  IF Len(d) >= 2 /\ d[1] = 120
       /\ d[Len(d)] = ZChecksum(SubSeq(d, 2, Len(d) - 1))
  THEN SubSeq(d, 2, Len(d) - 1)
  ELSE <<>>

RECURSIVE Flatten(_)
Flatten(ss) == IF Len(ss) = 0 THEN <<>> ELSE ss[1] \o Flatten(Tail(ss))

----------------------------------------------------------------------------
(* RoadSegmentId codec *)

\* first index j >= i with keys[j].m_fid # keys[i].m_fid (lines 220-222)
RECURSIVE RunEnd(_, _, _)
RunEnd(keys, i, j) ==
  IF j <= Len(keys) /\ keys[i][1] = keys[j][1] THEN RunEnd(keys, i, j + 1) ELSE j

\* the runs of equal m_fid with their one-way flag and run length
RECURSIVE KeyRuns(_, _)
KeyRuns(keys, i) ==
  IF i > Len(keys) THEN <<>>
  ELSE LET j  == RunEnd(keys, i, i)
           ow == \A k \in i..(j - 1) : keys[k][3] # kReverseDirection
       IN  <<[fid |-> keys[i][1], len |-> j - i, oneWay |-> ow]>> \o KeyRuns(keys, j)

NumDirs(ow) == IF ow THEN 1 ELSE 2

\* a mutant of RunNumSegs: the division by numDirs is left out
RunNumSegs_NoDivide(run) == run.len

\* numSegsForThisFid after the division of line 238
RunNumSegs(run) == run.len \div NumDirs(run.oneWay)

\* the three bit streams of lines 251-271
KeyStreams(runs) ==
  LET n == Len(runs)
      prevFid(i) == IF i = 1 THEN 0 ELSE runs[i - 1].fid
      fidBits == Flatten([i \in 1..n |->
                   GammaEncode(((runs[i].fid - prevFid(i)) % FidModulus) + 1)])
      segBits == Flatten([i \in 1..n |-> GammaEncode(RunNumSegs(runs[i]) + 1)])
      owBits  == [i \in 1..n |-> IF runs[i].oneWay THEN 1 ELSE 0]
  IN  fidBits \o segBits \o owBits

\* TrafficInfo::SerializeTrafficKeys.  fatal: CHECK_EQUAL of line 237 fails.
SerializeTrafficKeys(keys) ==
  LET runs == KeyRuns(keys, 1)
  IN  IF \E i \in 1..Len(runs) : runs[i].len % NumDirs(runs[i].oneWay) # 0
      THEN [fatal |-> TRUE, bytes |-> <<>>]
      ELSE [fatal |-> FALSE,
            bytes |-> <<kLatestKeysVersion>> \o WriteVarUint(Len(runs))
                        \o BitsToBytes(KeyStreams(runs))]

\* lines 307-319: the keys of one run
RunKeys(fid, numSegs, ow) ==
  Flatten([j \in 1..numSegs |->
             [d \in 1..NumDirs(ow) |-> <<fid, (j - 1) % IdxModulus, d - 1>>]])

\* prefix sums of the fid deltas in uint32_t arithmetic (lines 290-295)
RECURSIVE FidSums(_, _)
FidSums(deltas, prevFid) ==
  IF Len(deltas) = 0 THEN <<>>
  ELSE LET f == (prevFid + deltas[1] - 1) % FidModulus
       IN  <<f>> \o FidSums(Tail(deltas), f)

\* The result of a deserializer.  kind: "ok", "exception" (a
\* Reader::Exception leaves the function) or "abort" (a CHECK fails);
\* sizeLeft is src.Size() at the closing ASSERT_EQUAL.
KeysException == [kind |-> "exception", keys |-> <<>>, sizeLeft |-> 0]

\* lines 300-319: the one-way bits, then the keys of every run
KeysAfterSegs(srcSize, n, bits, deltas, sd) ==
  IF ~sd.ok \/ sd.bp + n > Len(bits) THEN KeysException
  ELSE [kind |-> "ok",
        keys |-> Flatten([i \in 1..n |->
                   RunKeys(FidSums(deltas, 0)[i], sd.vals[i] - 1,
                           bits[sd.bp + i] > 0)]),
        sizeLeft |-> srcSize - BytesPulled(sd.bp + n)]

\* lines 297-298: the segment counts follow the fid deltas
KeysAfterFids(srcSize, n, bits, fd) ==
  IF ~fd.ok THEN KeysException
  ELSE KeysAfterSegs(srcSize, n, bits, fd.vals, GammaDecodeMany(bits, fd.bp, n))

\* lines 288-295: the bit reader over the rest of the source
KeysAfterCount(data, nr) ==
  IF ~nr.ok THEN KeysException
  ELSE KeysAfterFids(Len(data) - nr.pos + 1, nr.value,
                     BytesToBits(data, nr.pos),
                     GammaDecodeMany(BytesToBits(data, nr.pos), 0, nr.value))

\* TrafficInfo::DeserializeTrafficKeys
DeserializeTrafficKeys(data) ==
  IF Len(data) = 0 THEN KeysException
  ELSE IF data[1] # kLatestKeysVersion
  THEN [kind |-> "abort", keys |-> <<>>, sizeLeft |-> 0]
  ELSE KeysAfterCount(data, ReadVarUint(data, 2))

\* ASSERT is compiled into a debug build only, CHECK into every build
Builds == {"debug", "release"}

\* ASSERT_EQUAL(src.Size(), 0, ()) of lines 304 and 368 closes a decode r:
\* a debug build ends the process when bytes are left, a release build
\* returns what was decoded
AssertOutcome(r, build) ==
  IF r.kind = "ok" /\ r.sizeLeft # 0 /\ build = "debug" THEN "abort" ELSE r.kind

----------------------------------------------------------------------------
(* SpeedGroup codec *)

\* a mutant of ValueBits: two bits per value
ValueBits_TwoBits(v) == LowBits(v, 2)

\* bitWriter.Write(u, 3) of line 338
ValueBits(v) == LowBits(v, 3)

\* TrafficInfo::SerializeTrafficValues.  fatal: CHECK_LESS of line 337 fails.
SerializeTrafficValues(values) ==
  IF \E i \in 1..Len(values) : ~(values[i] < numSpeedGroups)
  THEN [fatal |-> TRUE, bytes |-> <<>>]
  ELSE [fatal |-> FALSE,
        bytes |-> Deflate(<<kLatestValuesVersion>> \o WriteVarUint(Len(values))
                    \o BitsToBytes(Flatten([i \in 1..Len(values) |->
                                              ValueBits(values[i])])))]

ValuesException == [kind |-> "exception", values |-> <<>>, sizeLeft |-> 0]

\* lines 360-368: n codes of 3 bits each
ValuesFromBits(srcSize, n, bits) ==
  IF 3 * n > Len(bits) THEN ValuesException
  ELSE [kind |-> "ok",
        values |-> [i \in 1..n |-> BitsValue(SubSeq(bits, 3 * i - 2, 3 * i))],
        sizeLeft |-> srcSize - BytesPulled(3 * n)]

\* line 359: the number of values
ValuesAfterCount(decompressedData, nr) ==
  IF ~nr.ok THEN ValuesException
  ELSE ValuesFromBits(Len(decompressedData) - nr.pos + 1, nr.value,
                      BytesToBits(decompressedData, nr.pos))

\* lines 353-357: the version byte of the decompressed data
ValuesAfterInflate(decompressedData) ==
  IF Len(decompressedData) = 0 THEN ValuesException
  ELSE IF decompressedData[1] # kLatestValuesVersion
  THEN [kind |-> "abort", values |-> <<>>, sizeLeft |-> 0]
  ELSE ValuesAfterCount(decompressedData, ReadVarUint(decompressedData, 2))

\* TrafficInfo::DeserializeTrafficValues
DeserializeTrafficValues(data) == ValuesAfterInflate(Inflate(data))

----------------------------------------------------------------------------
(* Inputs of the codecs *)

KeyFids == {0, 5, 7}

KeyUniverse == KeyFids \X (0..MaxIdx) \X {kForwardDirection, kReverseDirection}

\* operator< of RoadSegmentId: lexicographic on (m_fid, m_idx, m_dir)
KeyLess(a, b) ==
  \/ a[1] < b[1]
  \/ a[1] = b[1] /\ a[2] < b[2]
  \/ a[1] = b[1] /\ a[2] = b[2] /\ a[3] < b[3]

RECURSIVE SortedKeys(_)
SortedKeys(S) ==
  IF S = {} THEN <<>>
  ELSE LET m == CHOOSE x \in S : \A y \in S \ {x} : KeyLess(x, y)
       IN  <<m>> \o SortedKeys(S \ {m})

RECURSIVE SubsetsUpTo(_, _)
SubsetsUpTo(S, n) ==
  IF n = 0 THEN {{}}
  ELSE LET smaller == SubsetsUpTo(S, n - 1)
       IN  smaller \cup {s \cup {x} : s \in smaller, x \in S}

\* sorted, duplicate-free key lists (ExtractTrafficKeys asserts is_sorted)
KeyInputs == {SortedKeys(S) : S \in SubsetsUpTo(KeyUniverse, MaxKeys)}

RECURSIVE SeqsUpTo(_, _)
SeqsUpTo(S, n) ==
  IF n = 0 THEN {<<>>}
  ELSE LET shorter == SeqsUpTo(S, n - 1)
       IN  shorter \cup {Append(s, x) : s \in shorter, x \in S}

\* SpeedGroup is a uint8_t enumeration: one value past Count is included
ValueInputs == SeqsUpTo(0..numSpeedGroups, MaxVals)

----------------------------------------------------------------------------
(* Coloring *)

EmptyColoring == [k \in {} |-> SpeedGroupUnknown]

\* m_coloring.emplace(key, value): an entry already present is kept
Emplace(coloring, key, value) ==
  IF key \in DOMAIN coloring THEN coloring
  ELSE [k \in DOMAIN coloring \cup {key} |->
          IF k = key THEN value ELSE coloring[k]]

\* the loop of lines 472-473, from index i on
RECURSIVE EmplaceFrom(_, _, _, _)
EmplaceFrom(coloring, keys, values, i) ==
  IF i > Len(keys) THEN coloring
  ELSE EmplaceFrom(Emplace(coloring, keys[i], values[i]), keys, values, i + 1)

\* TrafficInfo::GetSpeedGroup
GetSpeedGroup(coloring, id) ==
  IF id \in DOMAIN coloring THEN coloring[id] ELSE SpeedGroupUnknown

\* a mutant of ClearColoring: the previous entries are kept
ClearColoring_Keep(coloring) == coloring

\* m_coloring.clear() of line 457
ClearColoring(coloring) == EmptyColoring

\* a mutant of UpdateTrafficData: line 468 is left out
UpdateTrafficData_NoAvailability(coloring, keys, availability, values) ==
  IF Len(keys) # Len(values)
  THEN [coloring |-> ClearColoring(coloring), availability |-> availability,
        ret |-> FALSE]
  ELSE [coloring |-> EmplaceFrom(ClearColoring(coloring), keys, values, 1),
        availability |-> availability, ret |-> TRUE]

\* TrafficInfo::UpdateTrafficData: the Coloring, m_availability and the
\* return value it leaves
UpdateTrafficData(coloring, keys, availability, values) ==
  IF Len(keys) # Len(values)
  THEN [coloring |-> ClearColoring(coloring), availability |-> "NoData",
        ret |-> FALSE]
  ELSE [coloring |-> EmplaceFrom(ClearColoring(coloring), keys, values, 1),
        availability |-> availability, ret |-> TRUE]

----------------------------------------------------------------------------
(* CombineColorings *)

\* result[key] = value: an entry already present is overwritten
Assign(coloring, key, value) ==
  [k \in DOMAIN coloring \cup {key} |-> IF k = key THEN value ELSE coloring[k]]

\* the loop of lines 191-206 from index i on and the closing assertion of
\* line 209; numUnexpectedKeys is a size_t.  kind: "ok", or "abort" where
\* an ASSERT of a debug build fails; result is the map at that point.
RECURSIVE CombineFrom(_, _, _, _, _, _)
CombineFrom(keys, knownColors, result, i, numUnexpectedKeys, build) ==
  IF i > Len(keys)
  THEN [kind |-> IF build = "debug" /\ numUnexpectedKeys # 0
                 THEN "abort" ELSE "ok",
        result |-> result]
  ELSE IF keys[i] \notin DOMAIN knownColors
  THEN CombineFrom(keys, knownColors,
                   Assign(result, keys[i], SpeedGroupUnknown), i + 1,
                   numUnexpectedKeys, build)
  ELSE IF build = "debug" /\ ~(numUnexpectedKeys > 0)
  THEN [kind |-> "abort",
        result |-> Assign(result, keys[i], knownColors[keys[i]])]
  ELSE CombineFrom(keys, knownColors,
                   Assign(result, keys[i], knownColors[keys[i]]), i + 1,
                   (numUnexpectedKeys - 1) % Pow2(SizeBits), build)

\* a mutant of CombineColorings: result.clear() of line 187 is left out
CombineColorings_NoClear(keys, knownColors, result, build) ==
  CombineFrom(keys, knownColors, result, 1,
              Cardinality(DOMAIN knownColors), build)

\* CombineColorings: how it ends and the map it leaves in result
CombineColorings(keys, knownColors, result, build) ==
  CombineFrom(keys, knownColors, ClearColoring(result), 1,
              Cardinality(DOMAIN knownColors), build)

\* the ids, labels and maps CombineColorings is applied to
CombineIds == {<<5, 0, kForwardDirection>>, <<5, 1, kForwardDirection>>,
               <<7, 0, kReverseDirection>>}

CombineLabels == {1, SpeedGroupUnknown}

CombineKnown ==
  UNION {[S -> CombineLabels] : S \in SUBSET CombineIds}

CombineResults ==
  {EmptyColoring, [k \in {<<7, 0, kReverseDirection>>} |-> 2]}

----------------------------------------------------------------------------
(* The remote side: platform::HttpClient and the traffic server *)

kETag == "Etag"

\* a response as HttpClient reports it: RunHttpRequest(), ErrorCode(),
\* ServerResponse() and GetHeaders() (a set of <<name, value>> pairs)
Response(ran, code, body, headers) ==
  [ran |-> ran, code |-> code, body |-> body, headers |-> headers]

\* no request was issued
NoRequest == Response(FALSE, 0, <<>>, {})

\* strings::to_int64 on an ASCII body: an optional '-' and the leading
\* decimal digits; 0 when there is none
RECURSIVE DigitsValue(_, _, _)
DigitsValue(s, i, acc) ==
  IF i <= Len(s) /\ s[i] \in 48..57
  THEN DigitsValue(s, i + 1, 10 * acc + (s[i] - 48))
  ELSE acc

ToInt64(s) ==
  IF Len(s) > 0 /\ s[1] = 45 THEN 0 - DigitsValue(s, 2, 0)
  ELSE DigitsValue(s, 1, 0)

\* the decimal text of a one-digit version, with its sign
VersionText(v) == IF v < 0 THEN <<45, 48 - v>> ELSE <<48 + v>>

\* value lists the server publishes: of every length, one starting with G1
\* and one starting with Unknown, the two groups alternating
SyncValueLists ==
  {[i \in 1..n |-> IF (i + e) % 2 = 0 THEN 1 ELSE SpeedGroupUnknown] :
     n \in 0..MaxSyncVals, e \in {0, 1}}

\* 200 bodies: the encodings of the value lists, a payload cut short, a
\* body that is no zlib stream, and a payload of another format version
ValueBodies ==
  {SerializeTrafficValues(v).bytes : v \in SyncValueLists}
    \cup {Deflate(<<kLatestValuesVersion, 2>>), <<>>,
          Deflate(<<kLatestValuesVersion + 1, 0>>)}

\* 404 bodies: the latest version the server holds, or no number at all
NotFoundBodies == {VersionText(v) : v \in (0 - 1)..MaxServerVersion} \cup {<<120>>}

ServerEtags == {"W1", "W2"}

\* the key lists the server publishes: the segments 0, 1, ... of feature 5
PublishedKeyLists ==
  {[i \in 1..n |-> <<5, i - 1, kForwardDirection>>] : n \in 0..MaxSyncKeys}

\* a keys file naming feature 5 twice, each time with one segment
RepeatedFidBody ==
  <<kLatestKeysVersion>> \o WriteVarUint(2)
    \o BitsToBytes(KeyStreams(<<[fid |-> 5, len |-> 1, oneWay |-> TRUE],
                                [fid |-> 5, len |-> 1, oneWay |-> TRUE]>>))

\* 200 bodies of the keys file: the encodings of the key lists, a file
\* naming a feature twice, a file cut short, an empty file, a file of
\* another format version and a file with a byte after its end
KeyBodies ==
  {SerializeTrafficKeys(k).bytes : k \in PublishedKeyLists}
    \cup {RepeatedFidBody,
          <<kLatestKeysVersion, 1>>,
          <<>>,
          <<kLatestKeysVersion + 1, 0>>,
          <<kLatestKeysVersion, 0, 0>>}

\* the answers to a request for the keys file
KeyResponses ==
  {Response(FALSE, 0 - 1, <<>>, {}), Response(TRUE, 500, <<>>, {}),
   Response(TRUE, 404, <<>>, {})}
    \cup {Response(TRUE, 200, b, {}) : b \in KeyBodies}

\* The answers a request carrying If-None-Match: token can get from a
\* server whose current entity tag is srvEtag: 304 exactly when the token
\* is the current tag, else 200 with a body and the tag in a header; at any
\* time 404, another status, or no answer at all.
HttpResponses(token, srvEtag) ==
  {Response(FALSE, 0 - 1, <<>>, {}), Response(TRUE, 500, <<>>, {})}
    \cup {Response(TRUE, 404, b, {}) : b \in NotFoundBodies}
    \cup (IF token = srvEtag
          THEN {Response(TRUE, 304, <<>>, {<<kETag, srvEtag>>})}
          ELSE {Response(TRUE, 200, b, {<<name, srvEtag>>}) :
                  b \in ValueBodies, name \in {kETag, "ETag"}})

----------------------------------------------------------------------------
(* Fetching the values *)

\* a mutant of MakeRemoteURL: the test of line 68 is left out
MakeRemoteURL_NoCheck(baseUrl, name, version) ==
  <<baseUrl>> \o (IF version # 0 THEN <<version>> ELSE <<>>)
    \o <<name, ".traffic">>

\* MakeRemoteURL: empty when TRAFFIC_DATA_BASE_URL is empty
MakeRemoteURL(baseUrl, name, version) ==
  IF baseUrl = "" THEN <<>>
  ELSE <<baseUrl>> \o (IF version # 0 THEN <<version>> ELSE <<>>)
         \o <<name, ".traffic">>

\* lines 374-385 and 410-424: a request is made only past the two early
\* returns
RequestIssued(info, baseUrl, mwmVersion) ==
  info /\ MakeRemoteURL(baseUrl, "mwm", mwmVersion) # <<>>

\* int64_t converted to uint64_t by the comparison of line 487
ToUint64(v) == v % Pow2(VersionBits)

\* a mutant of NotFoundAvailability: >= in place of the first >
NotFoundAvailability_Geq(version, mwmVersion, currentDataVersion) ==
  IF ToUint64(version) >= mwmVersion /\ version <= currentDataVersion
  THEN "ExpiredData"
  ELSE IF version > currentDataVersion THEN "ExpiredApp"
  ELSE "NoData"

\* lines 487-492
NotFoundAvailability(version, mwmVersion, currentDataVersion) ==
  IF ToUint64(version) > mwmVersion /\ version <= currentDataVersion
  THEN "ExpiredData"
  ELSE IF version > currentDataVersion THEN "ExpiredApp"
  ELSE "NoData"

\* a mutant of ProcessFailure: 304 is not told apart from other failures
ProcessFailure_No304(resp, mwmVersion, currentDataVersion) ==
  CASE resp.code = 404 ->
         [availability |-> NotFoundAvailability(ToInt64(resp.body), mwmVersion,
                                                currentDataVersion),
          status |-> "NotFound"]
    [] OTHER -> [availability |-> "Unknown", status |-> "Error"]

\* a mutant of ProcessFailure: line 502 reports NoData
ProcessFailure_NoData(resp, mwmVersion, currentDataVersion) ==
  CASE resp.code = 404 ->
         [availability |-> NotFoundAvailability(ToInt64(resp.body), mwmVersion,
                                                currentDataVersion),
          status |-> "NotFound"]
    [] resp.code = 304 -> [availability |-> "IsAvailable", status |-> "NotChanged"]
    [] OTHER -> [availability |-> "NoData", status |-> "Error"]

\* TrafficInfo::ProcessFailure: m_availability and the status returned
ProcessFailure(resp, mwmVersion, currentDataVersion) ==
  CASE resp.code = 404 ->
         [availability |-> NotFoundAvailability(ToInt64(resp.body), mwmVersion,
                                                currentDataVersion),
          status |-> "NotFound"]
    [] resp.code = 304 -> [availability |-> "IsAvailable", status |-> "NotChanged"]
    [] OTHER -> [availability |-> "Unknown", status |-> "Error"]

\* a mutant of UpdateETag: the header is never stored
UpdateETag_Never(token, headers) == token

\* lines 446-449: the Etag header, when the response has one
UpdateETag(token, headers) ==
  IF \E h \in headers : h[1] = kETag
  THEN (CHOOSE h \in headers : h[1] = kETag)[2]
  ELSE token

\* a mutant of ValuesReadError: the handler stores the new tag
ValuesReadError_StoresTag(token, headers) ==
  [availability |-> "NoData", etag |-> UpdateETag(token, headers),
   status |-> "Error", values |-> <<>>, aborted |-> FALSE]

\* the handler of lines 432-444
ValuesReadError(token, headers) ==
  [availability |-> "NoData", etag |-> token, status |-> "Error",
   values |-> <<>>, aborted |-> FALSE]

\* lines 426-452: the body has been handed to DeserializeTrafficValues
ValuesRead(availability, token, headers, d) ==
  CASE d.kind = "exception" -> ValuesReadError(token, headers)
    [] d.kind = "abort" ->
         [availability |-> availability, etag |-> token, status |-> "Error",
          values |-> <<>>, aborted |-> TRUE]
    [] OTHER ->
         [availability |-> "IsAvailable", etag |-> UpdateETag(token, headers),
          status |-> "New", values |-> d.values, aborted |-> FALSE]

\* line 425: the request did not end with status 200
ValuesFailure(token, f) ==
  [availability |-> f.availability, etag |-> token, status |-> f.status,
   values |-> <<>>, aborted |-> FALSE]

\* TrafficInfo::ReceiveTrafficValues: m_availability, the caller's etag, the
\* status returned and the values read.  aborted: a CHECK ended the process.
ReceiveTrafficValues(availability, token, info, baseUrl, mwmVersion, currentDataVersion, resp) ==
  IF ~info \/ MakeRemoteURL(baseUrl, "mwm", mwmVersion) = <<>>
  THEN [availability |-> availability, etag |-> token, status |-> "Error",
        values |-> <<>>, aborted |-> FALSE]
  ELSE IF ~resp.ran \/ resp.code # 200
  THEN ValuesFailure(token, ProcessFailure(resp, mwmVersion, currentDataVersion))
  ELSE ValuesRead(availability, token, resp.headers,
                  DeserializeTrafficValues(resp.body))

\* line 144: the result of UpdateTrafficData is returned
ValuesUpdated(r, u) ==
  [coloring |-> u.coloring, availability |-> u.availability, etag |-> r.etag,
   status |-> r.status, ret |-> u.ret, aborted |-> FALSE]

\* the switch of lines 141-150 on the status r.status
ValuesReceived(coloring, keys, r) ==
  IF r.status = "New" /\ ~r.aborted
  THEN ValuesUpdated(r, UpdateTrafficData(coloring, keys, r.availability, r.values))
  ELSE [coloring |-> coloring, availability |-> r.availability, etag |-> r.etag,
        status |-> r.status, ret |-> (r.status = "NotChanged" /\ ~r.aborted),
        aborted |-> r.aborted]

\* TrafficInfo::ReceiveTrafficData: everything one call leaves behind
ReceiveTrafficData(coloring, keys, availability, token, info, baseUrl, mwmVersion, currentDataVersion, resp) ==
  ValuesReceived(coloring, keys,
                 ReceiveTrafficValues(availability, token, info, baseUrl,
                                      mwmVersion, currentDataVersion, resp))

----------------------------------------------------------------------------
(* Fetching the keys *)

\* ReadRemoteFile: its return value, contents and errorCode
ReadRemoteFile(resp) ==
  [ok |-> resp.ran /\ resp.code = 200,
   contents |-> IF resp.ran THEN resp.body ELSE <<>>,
   errorCode |-> resp.code]

\* TrafficInfo::ReceiveTrafficKeys returns without touching m_keys
KeysKept(keys) == [keys |-> keys, ret |-> FALSE, aborted |-> FALSE]

\* lines 393-405: contents has been handed to DeserializeTrafficKeys and
\* the decode d ended as `outcome`
KeysRead(keys, d, outcome) ==
  CASE outcome = "exception" -> KeysKept(keys)
    [] outcome = "abort" -> [keys |-> keys, ret |-> FALSE, aborted |-> TRUE]
    [] OTHER -> [keys |-> d.keys, ret |-> TRUE, aborted |-> FALSE]

\* lines 383-405: the file has been requested
KeysFetched(keys, f, build) ==
  IF ~f.ok THEN KeysKept(keys)
  ELSE IF f.errorCode # 200 THEN KeysKept(keys)
  ELSE KeysRead(keys, DeserializeTrafficKeys(f.contents),
                AssertOutcome(DeserializeTrafficKeys(f.contents), build))

\* TrafficInfo::ReceiveTrafficKeys: m_keys and the return value.  aborted:
\* a CHECK or an ASSERT ended the process.
ReceiveTrafficKeys(keys, info, baseUrl, mwmVersion, resp, build) ==
  IF ~info \/ MakeRemoteURL(baseUrl, "mwm", mwmVersion) = <<>>
  THEN KeysKept(keys)
  ELSE KeysFetched(keys, ReadRemoteFile(resp), build)

----------------------------------------------------------------------------
(* State *)

VARIABLES
  m_keys,                \* TrafficInfo::m_keys
  m_coloring,            \* TrafficInfo::m_coloring
  m_availability,        \* TrafficInfo::m_availability
  m_currentDataVersion,  \* TrafficInfo::m_currentDataVersion
  mwmVersion,            \* m_mwmId.GetInfo()->GetVersion()
  baseUrl,               \* TRAFFIC_DATA_BASE_URL
  etag,                  \* the caller's string passed to ReceiveTrafficData
  serverEtag,            \* the server's current entity tag
  alive,                 \* FALSE once a CHECK has ended the process
  last,                  \* the last ReceiveTrafficData call and its result
  pc,                    \* position inside ReceiveTrafficData (SpecReaders)
  values,                \* the local `values` of ReceiveTrafficData
  idx,                   \* the loop index i of UpdateTrafficData
  before,                \* Coloring and Availability when the call began
  obs,                   \* what a concurrent reader saw during the call
  cx                     \* codec harness: the call in progress and its buffers

tiVars == <<m_keys, m_coloring, m_availability, m_currentDataVersion,
            mwmVersion, baseUrl, etag, alive>>
stepVars == <<pc, values, idx, before, obs>>
vars == <<m_keys, m_coloring, m_availability, m_currentDataVersion,
          mwmVersion, baseUrl, etag, serverEtag, alive, last, pc, values, idx,
          before, obs, cx>>

NoCodec == [kind |-> "none", stage |-> "idle", keys |-> <<>>, vals |-> <<>>,
            buf |-> <<>>, outKeys |-> <<>>, outVals |-> <<>>, sizeLeft |-> 0,
            tamper |-> "none"]

Snapshot == [kind |-> "seen", coloring |-> m_coloring,
             availability |-> m_availability]
NoSnapshot == [kind |-> "none", coloring |-> EmptyColoring,
               availability |-> "Unknown"]
\* a read that overlapped a write of the map: no value is guaranteed
TornSnapshot == [kind |-> "torn", coloring |-> EmptyColoring,
                 availability |-> "Unknown"]

\* tick flips with every finished call; prevAvailability is m_availability
\* when the call began
NoCall == [tick |-> 0, op |-> "none", info |-> TRUE,
           resp |-> NoRequest, prevAvailability |-> "Unknown",
           status |-> "None", ret |-> FALSE]

\* the key lists of a one-way feature 5 as DeserializeTrafficKeys can leave
\* them: the segments 0, 1, ... in order, any of them possibly repeated
SyncKeyLists ==
  {[i \in 1..Len(t) |-> <<5, t[i], kForwardDirection>>] :
     t \in {u \in SeqsUpTo(0..(MaxSyncKeys - 1), MaxSyncKeys) :
              /\ Len(u) > 0 => u[1] = 0
              /\ \A i \in 1..(Len(u) - 1) : u[i + 1] \in {u[i], u[i] + 1}}}

\* <<mwm version, client data version>>
VersionPairs == {<<1, 2>>, <<2, 1>>}

\* the state a constructed TrafficInfo is in: keys loaded, nothing fetched
InitTrafficInfo ==
  /\ m_keys \in SyncKeyLists
  /\ m_coloring = EmptyColoring
  /\ m_availability = "Unknown"
  /\ \E p \in VersionPairs : mwmVersion = p[1] /\ m_currentDataVersion = p[2]
  /\ baseUrl \in {"", "http://traffic/"}
  /\ etag = ""
  /\ serverEtag \in ServerEtags
  /\ alive = TRUE
  /\ last = NoCall
  /\ pc = "idle" /\ values = <<>> /\ idx = 0
  /\ before = NoSnapshot /\ obs = NoSnapshot

Init == InitTrafficInfo /\ cx = NoCodec

\* the record of a finished call
CallRecord(info, resp, status, ret) ==
  [tick |-> 1 - last.tick, op |-> "ReceiveTrafficData", info |-> info, resp |-> resp, prevAvailability |-> m_availability,
   status |-> status, ret |-> ret]

\* the requests a call can make: none without mwm info or remote base
Requests ==
  {<<TRUE, r>> : r \in IF RequestIssued(TRUE, baseUrl, mwmVersion)
                       THEN HttpResponses(etag, serverEtag)
                       ELSE {NoRequest}}
    \cup {<<FALSE, NoRequest>>}

----------------------------------------------------------------------------
(* Spec: one ReceiveTrafficData call per step *)

\* the state a finished call r leaves
Returned(info, resp, r) ==
  IF r.aborted
  THEN /\ alive' = FALSE
       /\ last' = CallRecord(info, resp, "Aborted", FALSE)
       /\ UNCHANGED <<m_coloring, m_availability, etag>>
  ELSE /\ m_coloring' = r.coloring
       /\ m_availability' = r.availability
       /\ etag' = r.etag
       /\ last' = CallRecord(info, resp, r.status, r.ret)
       /\ alive' = alive

DoReceiveTrafficData(info, resp) ==
  /\ alive /\ pc = "idle"
  /\ Returned(info, resp,
              ReceiveTrafficData(m_coloring, m_keys, m_availability, etag, info,
                                 baseUrl, mwmVersion, m_currentDataVersion, resp))
  /\ UNCHANGED <<m_keys, m_currentDataVersion, mwmVersion, baseUrl, serverEtag,
                 stepVars, cx>>

\* the server publishes new data under a new entity tag
ServerPublish ==
  /\ serverEtag' \in ServerEtags \ {serverEtag}
  /\ UNCHANGED <<tiVars, last, stepVars, cx>>

Next ==
  \/ \E q \in Requests : DoReceiveTrafficData(q[1], q[2])
  \/ ServerPublish

Spec == Init /\ [][Next]_vars

----------------------------------------------------------------------------
(* SpecKeys: ReceiveTrafficKeys and ReceiveTrafficData calls, one per step *)

KeyRequests ==
  {<<TRUE, r>> : r \in IF RequestIssued(TRUE, baseUrl, mwmVersion)
                       THEN KeyResponses
                       ELSE {NoRequest}}
    \cup {<<FALSE, NoRequest>>}

\* the state a finished ReceiveTrafficKeys call r leaves
KeysReturned(info, resp, r) ==
  /\ alive' = ~r.aborted
  /\ m_keys' = r.keys
  /\ last' = [CallRecord(info, resp, IF r.aborted THEN "Aborted" ELSE "None",
                         r.ret)
                EXCEPT !.op = "ReceiveTrafficKeys"]

DoReceiveTrafficKeys(info, resp, build) ==
  /\ alive /\ pc = "idle"
  /\ KeysReturned(info, resp,
                  ReceiveTrafficKeys(m_keys, info, baseUrl, mwmVersion, resp,
                                     build))
  /\ UNCHANGED <<m_coloring, m_availability, m_currentDataVersion, mwmVersion,
                 baseUrl, etag, serverEtag, stepVars, cx>>

\* one mwm version, and a server whose data does not change
InitKeys ==
  /\ Init
  /\ mwmVersion = 1
  /\ serverEtag = "W1"

NextKeys ==
  \/ \E q \in Requests : DoReceiveTrafficData(q[1], q[2])
  \/ \E q \in KeyRequests, build \in Builds :
        DoReceiveTrafficKeys(q[1], q[2], build)

SpecKeys == InitKeys /\ [][NextKeys]_vars

----------------------------------------------------------------------------
(* SpecReaders: ReceiveTrafficData statement by statement, with a reader  *)
(* of m_coloring and m_availability running beside it                     *)

InitReaders ==
  /\ InitTrafficInfo /\ cx = NoCodec
  /\ baseUrl # ""
  /\ mwmVersion = 1

\* the state in which ReceiveTrafficValues has returned r
ValuesReturned(info, resp, r) ==
  IF r.aborted
  THEN /\ alive' = FALSE
       /\ last' = CallRecord(info, resp, "Aborted", FALSE)
       /\ UNCHANGED <<m_availability, etag, pc, values>>
  ELSE /\ m_availability' = r.availability
       /\ etag' = r.etag
       /\ alive' = alive
       /\ IF r.status = "New"
          THEN /\ pc' = "clear"
               /\ values' = r.values
               /\ last' = [CallRecord(info, resp, "Running", FALSE)
                             EXCEPT !.tick = last.tick]
          ELSE /\ pc' = "idle"
               /\ values' = <<>>
               /\ last' = CallRecord(info, resp, r.status,
                                     r.status = "NotChanged")

\* ReceiveTrafficValues (line 141) and the returns of lines 145-149
StepReceiveTrafficValues(info, resp) ==
  /\ alive /\ pc = "idle"
  /\ before' = Snapshot
  /\ obs' = NoSnapshot
  /\ ValuesReturned(info, resp,
                    ReceiveTrafficValues(m_availability, etag, info, baseUrl,
                                         mwmVersion, m_currentDataVersion, resp))
  /\ UNCHANGED <<m_keys, m_coloring, m_currentDataVersion, mwmVersion, baseUrl,
                 serverEtag, idx, cx>>

\* line 457
StepClear ==
  /\ pc = "clear"
  /\ m_coloring' = ClearColoring(m_coloring)
  /\ pc' = "check"
  /\ UNCHANGED <<m_keys, m_availability, m_currentDataVersion, mwmVersion,
                 baseUrl, etag, serverEtag, alive, last, values, idx, before,
                 obs, cx>>

\* lines 459-470: the sizes differ
StepMismatch ==
  /\ pc = "check"
  /\ Len(m_keys) # Len(values)
  /\ m_availability' = "NoData"
  /\ last' = [last EXCEPT !.tick = 1 - last.tick, !.status = "New",
                          !.ret = FALSE]
  /\ pc' = "idle" /\ values' = <<>>
  /\ UNCHANGED <<m_keys, m_coloring, m_currentDataVersion, mwmVersion, baseUrl,
                 etag, serverEtag, alive, idx, before, obs, cx>>

\* line 472: the sizes agree, the loop starts
StepMatch ==
  /\ pc = "check"
  /\ Len(m_keys) = Len(values)
  /\ pc' = "fill" /\ idx' = 1
  /\ UNCHANGED <<tiVars, serverEtag, last, values, before, obs, cx>>

\* line 473
StepEmplace ==
  /\ pc = "fill"
  /\ idx <= Len(m_keys)
  /\ m_coloring' = Emplace(m_coloring, m_keys[idx], values[idx])
  /\ idx' = idx + 1
  /\ UNCHANGED <<m_keys, m_availability, m_currentDataVersion, mwmVersion,
                 baseUrl, etag, serverEtag, alive, last, pc, values, before,
                 obs, cx>>

\* line 475
StepReturn ==
  /\ pc = "fill"
  /\ idx > Len(m_keys)
  /\ last' = [last EXCEPT !.tick = 1 - last.tick, !.status = "New",
                          !.ret = TRUE]
  /\ pc' = "idle" /\ values' = <<>> /\ idx' = 0
  /\ UNCHANGED <<tiVars, serverEtag, before, obs, cx>>

\* another thread reads m_coloring and m_availability while the call runs;
\* nothing orders the read with the writes of lines 457 and 473
Reader ==
  /\ pc # "idle"
  /\ obs = NoSnapshot
  /\ obs' \in {Snapshot} \cup (IF pc \in {"clear", "fill"} THEN {TornSnapshot} ELSE {})
  /\ UNCHANGED <<tiVars, serverEtag, last, pc, values, idx, before, cx>>

NextReaders ==
  \/ \E q \in Requests : StepReceiveTrafficValues(q[1], q[2])
  \/ StepClear
  \/ StepMismatch
  \/ StepMatch
  \/ StepEmplace
  \/ StepReturn
  \/ Reader
  \/ ServerPublish

SpecReaders == InitReaders /\ [][NextReaders]_vars

----------------------------------------------------------------------------
(* SpecCodec: every input is serialized, then deserialized *)

InitCodec ==
  /\ cx \in {[NoCodec EXCEPT !.kind = "keys", !.stage = "input", !.keys = k] :
               k \in KeyInputs}
            \cup
            {[NoCodec EXCEPT !.kind = "values", !.stage = "input", !.vals = v] :
               v \in ValueInputs}
  /\ m_keys = <<>>
  /\ m_coloring = EmptyColoring
  /\ m_availability = "Unknown"
  /\ mwmVersion = 1 /\ m_currentDataVersion = 1
  /\ baseUrl = ""
  /\ etag = ""
  /\ serverEtag = "W1"
  /\ alive = TRUE
  /\ last = NoCall
  /\ pc = "idle" /\ values = <<>> /\ idx = 0
  /\ before = NoSnapshot /\ obs = NoSnapshot

DoSerializeKeys ==
  /\ cx.kind = "keys" /\ cx.stage = "input"
  /\ LET r == SerializeTrafficKeys(cx.keys)
     IN  cx' = [cx EXCEPT !.stage = IF r.fatal THEN "fatal" ELSE "encoded",
                          !.buf = r.bytes]
  /\ UNCHANGED <<tiVars, serverEtag, last, stepVars>>

\* the ways a decode r can end, over the builds
AssertOutcomes(r) == {AssertOutcome(r, build) : build \in Builds}

\* what the caller holds after a deserializer that ended as `outcome`
Delivered(outcome, seq) == IF outcome = "ok" THEN seq ELSE <<>>

KeysDeserialized(r) ==
  \E outcome \in AssertOutcomes(r) :
     cx' = [cx EXCEPT !.stage = outcome,
                      !.outKeys = Delivered(outcome, r.keys),
                      !.sizeLeft = r.sizeLeft]

DoDeserializeKeys ==
  /\ cx.kind = "keys" /\ cx.stage = "encoded"
  /\ KeysDeserialized(DeserializeTrafficKeys(cx.buf))
  /\ UNCHANGED <<tiVars, serverEtag, last, stepVars>>

DoSerializeValues ==
  /\ cx.kind = "values" /\ cx.stage = "input"
  /\ LET r == SerializeTrafficValues(cx.vals)
     IN  cx' = [cx EXCEPT !.stage = IF r.fatal THEN "fatal" ELSE "encoded",
                          !.buf = r.bytes]
  /\ UNCHANGED <<tiVars, serverEtag, last, stepVars>>

ValuesDeserialized(r) ==
  \E outcome \in AssertOutcomes(r) :
     cx' = [cx EXCEPT !.stage = outcome,
                      !.outVals = Delivered(outcome, r.values),
                      !.sizeLeft = r.sizeLeft]

DoDeserializeValues ==
  /\ cx.kind = "values" /\ cx.stage = "encoded"
  /\ ValuesDeserialized(DeserializeTrafficValues(cx.buf))
  /\ UNCHANGED <<tiVars, serverEtag, last, stepVars>>

NextCodec ==
  \/ DoSerializeKeys
  \/ DoDeserializeKeys
  \/ DoSerializeValues
  \/ DoDeserializeValues

SpecCodec == InitCodec /\ [][NextCodec]_vars

----------------------------------------------------------------------------
(* SpecCombine: CombineColorings applied to every input *)

InitCombine ==
  /\ cx \in {[kind |-> "combine", stage |-> "input", keys |-> k,
               knownColors |-> c, result |-> r] :
               k \in SeqsUpTo(CombineIds, MaxCombineKeys),
               c \in CombineKnown, r \in CombineResults}
  /\ m_keys = <<>>
  /\ m_coloring = EmptyColoring
  /\ m_availability = "Unknown"
  /\ mwmVersion = 1 /\ m_currentDataVersion = 1
  /\ baseUrl = ""
  /\ etag = ""
  /\ serverEtag = "W1"
  /\ alive = TRUE
  /\ last = NoCall
  /\ pc = "idle" /\ values = <<>> /\ idx = 0
  /\ before = NoSnapshot /\ obs = NoSnapshot

\* the call has ended as r; knownColors is passed by const reference
Combined(r) ==
  cx' = [kind |-> "combine", stage |-> r.kind, keys |-> cx.keys,
         knownColors |-> cx.knownColors, result |-> r.result]

DoCombineColorings(build) ==
  /\ cx.kind = "combine" /\ cx.stage = "input"
  /\ Combined(CombineColorings(cx.keys, cx.knownColors, cx.result, build))
  /\ UNCHANGED <<tiVars, serverEtag, last, stepVars>>

NextCombine == \E build \in Builds : DoCombineColorings(build)

SpecCombine == InitCombine /\ [][NextCombine]_vars

----------------------------------------------------------------------------
(* SpecRaw: DeserializeTrafficKeys applied to buffers of any origin, and  *)
(* a Coloring built from the keys it returns                              *)

\* what a buffer can name: any feature ids in any order (a fid delta is
\* any number, the sum wraps), any segment counts and one-way flags
RawRuns ==
  {[fid |-> f, len |-> n * NumDirs(ow), oneWay |-> ow] :
     f \in 0..(FidModulus - 1), n \in 0..MaxRawSegs, ow \in BOOLEAN}

\* the buffers DeserializeTrafficKeys reads to their end: the supported
\* version byte, the feature count and the three bit streams
RawBuffers ==
  {<<kLatestKeysVersion>> \o WriteVarUint(Len(r)) \o BitsToBytes(KeyStreams(r)) :
     r \in SeqsUpTo(RawRuns, MaxRawRuns)}

InitRaw ==
  /\ cx \in {[NoCodec EXCEPT !.kind = "keys", !.stage = "encoded",
                              !.tamper = "raw", !.buf = b] :
               b \in RawBuffers}
  /\ m_keys = <<>>
  /\ m_coloring = EmptyColoring
  /\ m_availability = "Unknown"
  /\ mwmVersion = 1 /\ m_currentDataVersion = 1
  /\ baseUrl = ""
  /\ etag = ""
  /\ serverEtag = "W1"
  /\ alive = TRUE
  /\ last = NoCall
  /\ pc = "idle" /\ values = <<>> /\ idx = 0
  /\ before = NoSnapshot /\ obs = NoSnapshot

\* the decoded keys become m_keys (line 110 or 404) and UpdateTrafficData
\* builds the Coloring from as many values
DoUpdateFromKeys ==
  /\ cx.kind = "keys" /\ cx.stage = "ok" /\ cx.tamper = "raw"
  /\ m_keys' = cx.outKeys
  /\ m_coloring' = UpdateTrafficData(m_coloring, cx.outKeys, m_availability,
                                     [i \in 1..Len(cx.outKeys) |-> 1]).coloring
  /\ cx' = [cx EXCEPT !.stage = "colored"]
  /\ UNCHANGED <<m_availability, m_currentDataVersion, mwmVersion, baseUrl,
                 etag, serverEtag, alive, last, stepVars>>

NextRaw ==
  \/ DoDeserializeKeys
  \/ DoUpdateFromKeys

SpecRaw == InitRaw /\ [][NextRaw]_vars

----------------------------------------------------------------------------
(* SpecDamaged: as SpecCodec, with the encoded buffer damaged on its way  *)
(* to the deserializer                                                    *)

\* the bytes that may be appended to a buffer
AppendedBytes == {0, 255}

\* the buffer with one byte appended, or with its last byte removed
DamagedBuffers(buf) ==
  {[how |-> "appended", buf |-> Append(buf, b)] : b \in AppendedBytes}
    \cup {[how |-> "truncated", buf |-> SubSeq(buf, 1, Len(buf) - 1)]}

DoDamage ==
  /\ cx.stage = "encoded" /\ cx.tamper = "none"
  /\ \E d \in DamagedBuffers(cx.buf) :
        cx' = [cx EXCEPT !.tamper = d.how, !.buf = d.buf]
  /\ UNCHANGED <<tiVars, serverEtag, last, stepVars>>

NextDamaged ==
  \/ DoSerializeKeys
  \/ DoDeserializeKeys
  \/ DoSerializeValues
  \/ DoDeserializeValues
  \/ DoDamage

SpecDamaged == InitCodec /\ [][NextDamaged]_vars

----------------------------------------------------------------------------
(* Claims about the codecs, checked under SpecCodec *)

KeyIsSorted(keys) == \A i \in 1..(Len(keys) - 1) : KeyLess(keys[i], keys[i + 1])

\* every feature's keys are exactly idx 0..c-1 with Forward only (one-way)
\* or with both directions at each idx (two-way)
KeyWellFormed(keys) ==
  LET S == {keys[i] : i \in 1..Len(keys)}
      OfFid(f) == {k \in S : k[1] = f}
  IN  /\ KeyIsSorted(keys)
      /\ \A f \in {k[1] : k \in S} :
            \E c \in 1..Len(keys) :
              \/ OfFid(f) = {f} \X (0..(c - 1)) \X {kForwardDirection}
              \/ OfFid(f) = {f} \X (0..(c - 1)) \X {kForwardDirection, kReverseDirection}

OneWayScenario == <<<<5, 0, 0>>, <<5, 1, 0>>, <<5, 2, 0>>>>
TwoWayScenario == <<<<7, 0, 0>>, <<7, 0, 1>>, <<7, 1, 0>>, <<7, 1, 1>>>>

\* C9: for every sorted, duplicate-free, well-formed key list,
\* SerializeTrafficKeys succeeds and DeserializeTrafficKeys of its output
\* returns the same list; the 3-entry one-way run is written with
\* oneWay = true and segmentCount = 3, the 4-entry two-way run with
\* oneWay = false and segmentCount = 2.
C9_KeyRoundTrip ==
  (cx.kind = "keys" /\ KeyWellFormed(cx.keys)) =>
    /\ cx.stage \in {"input", "encoded", "ok"}
    /\ cx.stage = "ok" => cx.outKeys = cx.keys
    /\ cx.keys = OneWayScenario =>
          LET runs == KeyRuns(cx.keys, 1)
          IN  Len(runs) = 1 /\ runs[1].oneWay /\ RunNumSegs(runs[1]) = 3
    /\ cx.keys = TwoWayScenario =>
          LET runs == KeyRuns(cx.keys, 1)
          IN  Len(runs) = 1 /\ ~runs[1].oneWay /\ RunNumSegs(runs[1]) = 2

C9_Witness ==
  /\ cx.kind = "keys" /\ cx.stage = "ok"
  /\ cx.keys = TwoWayScenario /\ cx.outKeys = TwoWayScenario

\* C10: every value list with all values < Count (the empty one included)
\* is serialized and deserialized back to itself; a list holding a value
\* >= Count is rejected by the serializer (fatal) and never encoded.
C10_ValueRoundTrip ==
  cx.kind = "values" =>
    IF \A i \in 1..Len(cx.vals) : cx.vals[i] < numSpeedGroups
    THEN /\ cx.stage \in {"input", "encoded", "ok"}
         /\ cx.stage = "ok" => cx.outVals = cx.vals
    ELSE cx.stage \in {"input", "fatal"} /\ cx.buf = <<>>

C10_Witness ==
  /\ cx.kind = "values" /\ cx.stage = "ok"
  /\ cx.vals = <<5, 7, 2>> /\ cx.outVals = cx.vals

----------------------------------------------------------------------------
(* Claims about ReceiveTrafficData, checked under Spec.  A step is a call  *)
(* exactly when last.tick flips; last' then describes the call, and the   *)
(* unprimed variables are the state the call began in.                    *)

Called == last'.tick # last.tick /\ last'.op = "ReceiveTrafficData"

\* the call issued a request and the server answered with status code
Got(code) == Called /\ last'.resp.ran /\ last'.resp.code = code

\* what the body of the call's response decodes to
Decoded(call) == DeserializeTrafficValues(call.resp.body)

KeySet(keys) == {keys[i] : i \in 1..Len(keys)}

NoDuplicates(keys) ==
  \A i, j \in 1..Len(keys) : i # j => keys[i] # keys[j]

\* ids a consumer may look up: more than any key list holds
LookupIds == {5, 7} \X (0..MaxSyncKeys) \X {kForwardDirection, kReverseDirection}

\* C1: status 200 with a body that decodes to as many values as there are
\* keys, the keys duplicate-free: the call returns true, Availability is
\* IsAvailable, Lookup(keys[i]) = values[i] for every i, Lookup of any other
\* id is Unknown and no entry of the previous Coloring survives.
C1_SuccessfulUpdate ==
  [][(/\ Got(200)
      /\ Decoded(last').kind = "ok"
      /\ Len(Decoded(last').values) = Len(m_keys)
      /\ NoDuplicates(m_keys))
     => /\ last'.status = "New" /\ last'.ret
        /\ m_availability' = "IsAvailable"
        /\ \A i \in 1..Len(m_keys) :
             GetSpeedGroup(m_coloring', m_keys[i]) = Decoded(last').values[i]
        /\ \A id \in LookupIds \ KeySet(m_keys) :
             GetSpeedGroup(m_coloring', id) = SpeedGroupUnknown
        /\ DOMAIN m_coloring' = KeySet(m_keys)]_vars

C1_Witness ==
  /\ last.op = "ReceiveTrafficData" /\ last.resp.code = 200 /\ last.ret
  /\ last.prevAvailability = "NoData"
  /\ Len(m_keys) = 2 /\ NoDuplicates(m_keys)
  /\ m_availability = "IsAvailable"
  /\ GetSpeedGroup(m_coloring, m_keys[1]) = 1
  /\ GetSpeedGroup(m_coloring, m_keys[2]) = SpeedGroupUnknown

\* C2: status 404 with a body holding the version v >= 0: Availability is
\* ExpiredData if v > mwmVersion and v <= currentDataVersion, else
\* ExpiredApp if v > currentDataVersion, else NoData; the status is NotFound
\* and the call returns false.
C2_NotFound ==
  [][(Got(404) /\ ToInt64(last'.resp.body) >= 0)
     => /\ m_availability' =
             (IF /\ ToInt64(last'.resp.body) > mwmVersion
                 /\ ToInt64(last'.resp.body) <= m_currentDataVersion
              THEN "ExpiredData"
              ELSE IF ToInt64(last'.resp.body) > m_currentDataVersion
              THEN "ExpiredApp"
              ELSE "NoData")
        /\ last'.status = "NotFound" /\ ~last'.ret]_vars

C2_Witness ==
  /\ last.op = "ReceiveTrafficData" /\ last.resp.ran /\ last.resp.code = 404
  /\ ToInt64(last.resp.body) = 2 /\ mwmVersion = 1 /\ m_currentDataVersion = 2
  /\ m_availability = "ExpiredData" /\ last.status = "NotFound" /\ ~last.ret

\* C3: status 304, whatever Availability was: Availability is IsAvailable,
\* the status is NotChanged, the call returns true, and the Coloring, the
\* key list and the caller's token are as they were.
C3_NotModified ==
  [][Got(304)
     => /\ m_availability' = "IsAvailable"
        /\ last'.status = "NotChanged" /\ last'.ret
        /\ m_coloring' = m_coloring
        /\ m_keys' = m_keys
        /\ etag' = etag]_vars

C3_Witness ==
  /\ last.op = "ReceiveTrafficData" /\ last.resp.ran /\ last.resp.code = 304
  /\ last.prevAvailability = "Unknown"
  /\ m_availability = "IsAvailable" /\ last.status = "NotChanged" /\ last.ret
  /\ m_coloring # EmptyColoring

\* C4: the request fails at transport level, or ends with a status other
\* than 200, 304 and 404: Availability is Unknown, the status is Error, the
\* call returns false and the Coloring is as it was.
C4_OtherFailure ==
  [][(/\ Called /\ last'.info /\ baseUrl # ""
      /\ (~last'.resp.ran \/ last'.resp.code \notin {200, 304, 404}))
     => /\ m_availability' = "Unknown"
        /\ last'.status = "Error" /\ ~last'.ret
        /\ m_coloring' = m_coloring]_vars

C4_Witness ==
  /\ last.op = "ReceiveTrafficData" /\ last.info /\ baseUrl # ""
  /\ ~last.resp.ran
  /\ last.prevAvailability = "IsAvailable"
  /\ m_availability = "Unknown" /\ last.status = "Error"
  /\ m_coloring # EmptyColoring

\* C5: status 200 with a body the reader cannot decode: Availability is
\* NoData, the status is Error, the call returns false, and the Coloring and
\* the caller's token are as they were.
C5_ReadError ==
  [][(Got(200) /\ Decoded(last').kind = "exception")
     => /\ m_availability' = "NoData"
        /\ last'.status = "Error" /\ ~last'.ret
        /\ m_coloring' = m_coloring
        /\ etag' = etag]_vars

C5_Witness ==
  /\ last.op = "ReceiveTrafficData" /\ last.resp.ran /\ last.resp.code = 200
  /\ Decoded(last).kind = "exception"
  /\ last.prevAvailability = "IsAvailable"
  /\ m_availability = "NoData" /\ last.status = "Error"
  /\ m_coloring # EmptyColoring
  /\ etag # "" /\ <<kETag, etag>> \notin last.resp.headers

\* C6: status 200 with a body that decodes to a value list of another
\* length than the key list: the call returns false, the Coloring holds
\* nothing built from those values, and Availability is NoData.
C6_SizeMismatch ==
  [][(/\ Got(200)
      /\ Decoded(last').kind = "ok"
      /\ Len(Decoded(last').values) # Len(m_keys))
     => /\ ~last'.ret
        /\ m_coloring' = EmptyColoring
        /\ m_availability' = "NoData"]_vars

C6_Witness ==
  /\ last.op = "ReceiveTrafficData" /\ last.resp.ran /\ last.resp.code = 200
  /\ Decoded(last).kind = "ok"
  /\ Len(Decoded(last).values) = 1 /\ Len(m_keys) = 2
  /\ ~last.ret /\ m_availability = "NoData"

\* C7: after a call that returned New and stored the value of the
\* response's Etag header, with the server's tag still that value, the next
\* call sends exactly the stored value as If-None-Match; the server, which
\* answers a request it serves with 304 exactly when If-None-Match is its
\* tag and with 200 otherwise, answers 304, the status is NotChanged and the
\* Coloring is as it was.
C7_ConditionalFetch ==
  [][(/\ Called /\ last'.info /\ baseUrl # ""
      /\ last.op = "ReceiveTrafficData" /\ last.status = "New"
      /\ <<kETag, serverEtag>> \in last.resp.headers
      /\ last'.resp.ran /\ last'.resp.code \in {200, 304})
     => /\ etag = serverEtag
        /\ last'.resp.code = 304
        /\ last'.status = "NotChanged"
        /\ m_coloring' = m_coloring]_vars

C7_Witness ==
  /\ last.op = "ReceiveTrafficData" /\ last.resp.ran /\ last.resp.code = 304
  /\ last.resp.headers = {<<kETag, etag>>}
  /\ etag = serverEtag
  /\ last.status = "NotChanged"
  /\ m_coloring # EmptyColoring

----------------------------------------------------------------------------
(* Claims about concurrent readers, checked under SpecReaders *)

\* C8: what a reader sees of the Coloring and Availability while a call
\* runs is the state from before the call or the state the call leaves,
\* never something in between.
C8_ReadersSeeWholeSnapshots ==
  (pc = "idle" /\ obs.kind # "none") => obs \in {before, Snapshot}

----------------------------------------------------------------------------
(* Claims about damaged buffers, checked under SpecDamaged *)

\* C11: decoding an encoded buffer that had one byte appended or its last
\* byte removed ends in a failure (an exception or an abort), never in a
\* returned key or value list; a decode that returns has consumed its input
\* exactly.
C11_Exactness ==
  /\ (cx.tamper # "none" /\ cx.stage # "encoded")
        => cx.stage \in {"exception", "abort"}
  /\ cx.stage = "ok" => cx.sizeLeft = 0

----------------------------------------------------------------------------
(* Claims about ReceiveTrafficKeys, checked under SpecKeys *)

CalledKeys == last'.tick # last.tick /\ last'.op = "ReceiveTrafficKeys"

\* the keys call got status 200
GotKeys == CalledKeys /\ last'.resp.ran /\ last'.resp.code = 200

\* what the body of a keys response decodes to
DecodedKeys(call) == DeserializeTrafficKeys(call.resp.body)

\* C12: a payload whose format-version byte is not 0 is a failure the
\* instance recovers from.  Values under status 200: the status is Error,
\* Availability is NoData and the Coloring is kept.  Keys: the call returns
\* false and the key list is kept.  Either way the process lives on.
C12_VersionByteRecoverable ==
  [][/\ (Got(200) /\ Decoded(last').kind = "abort")
          => /\ alive'
             /\ last'.status = "Error" /\ ~last'.ret
             /\ m_availability' = "NoData"
             /\ m_coloring' = m_coloring
     /\ (GotKeys /\ DecodedKeys(last').kind = "abort")
          => /\ alive'
             /\ ~last'.ret
             /\ m_keys' = m_keys]_vars

\* C13: ReceiveTrafficKeys never changes Availability or the Coloring; a
\* 200 response that decodes completely replaces the key list by the
\* decoded one and the call returns true; in every other case the call
\* returns false and the key list is as it was.
C13_KeysFrame ==
  [][CalledKeys
     => /\ m_availability' = m_availability
        /\ m_coloring' = m_coloring
        /\ IF /\ last'.resp.ran /\ last'.resp.code = 200
              /\ DecodedKeys(last').kind = "ok"
              /\ DecodedKeys(last').sizeLeft = 0
           THEN last'.ret /\ m_keys' = DecodedKeys(last').keys
           ELSE /\ alive' /\ ~last'.ret
                /\ m_keys' = m_keys]_vars

\* C14: with no remote base URL, ReceiveTrafficKeys and ReceiveTrafficData
\* return false without making a request, and Availability, the Coloring,
\* the key list and the caller's token are as they were.
C14_NoBaseUrl ==
  [][(baseUrl = "" /\ (Called \/ CalledKeys))
     => /\ last'.resp = NoRequest
        /\ alive' /\ ~last'.ret
        /\ Called => last'.status = "Error"
        /\ m_availability' = m_availability
        /\ m_coloring' = m_coloring
        /\ m_keys' = m_keys
        /\ etag' = etag]_vars

C14_Witness ==
  /\ baseUrl = ""
  /\ last.op = "ReceiveTrafficData" /\ last.info
  /\ last.resp = NoRequest /\ last.status = "Error" /\ ~last.ret
  /\ Len(m_keys) = 2
  /\ m_availability = "Unknown" /\ etag = ""

----------------------------------------------------------------------------
(* Claims about CombineColorings, checked under SpecCombine *)

\* C15: for a duplicate-free key list, result has exactly one entry per
\* key; a key of knownColors carries the label of knownColors, every other
\* key is Unknown; what result held before is gone and knownColors is as it
\* was passed.
C15_CombineColorings ==
  [][(/\ cx.kind = "combine" /\ cx.stage = "input"
      /\ cx'.stage # "input"
      /\ NoDuplicates(cx.keys))
     => /\ DOMAIN cx'.result = KeySet(cx.keys)
        /\ Cardinality(DOMAIN cx'.result) = Len(cx.keys)
        /\ \A k \in KeySet(cx.keys) :
             cx'.result[k] = IF k \in DOMAIN cx.knownColors
                             THEN cx.knownColors[k]
                             ELSE SpeedGroupUnknown
        /\ cx'.knownColors = cx.knownColors]_vars

C15_Witness ==
  /\ cx.kind = "combine" /\ cx.stage = "ok"
  /\ cx.keys = <<<<5, 0, kForwardDirection>>, <<5, 1, kForwardDirection>>>>
  /\ DOMAIN cx.knownColors = {<<5, 1, kForwardDirection>>}
  /\ cx.knownColors[<<5, 1, kForwardDirection>>] = 1
  /\ cx.result[<<5, 0, kForwardDirection>>] = SpeedGroupUnknown
  /\ cx.result[<<5, 1, kForwardDirection>>] = 1

----------------------------------------------------------------------------
(* Claims about sequences of ReceiveTrafficData calls, checked under Spec *)

\* C16: with a non-empty key list, whenever Availability is IsAvailable
\* the Coloring holds an entry for every key of the key list.
C16_AvailabilityGate ==
  (Len(m_keys) > 0 /\ m_availability = "IsAvailable")
    => KeySet(m_keys) \subseteq DOMAIN m_coloring

\* C17: a call that returns false leaves the Coloring as it was.
C17_ColoringOnlyOnSuccess ==
  [][(Called /\ alive' /\ ~last'.ret) => m_coloring' = m_coloring]_vars

\* C18: a call that returns false leaves the caller's token as it was.
C18_TokenOnlyOnSuccess ==
  [][(Called /\ alive' /\ ~last'.ret) => etag' = etag]_vars

\* C19: status 404 with a body holding a negative number, or no number at
\* all (read as 0): Availability is NoData.
C19_NegativeVersion ==
  [][(Got(404) /\ ToInt64(last'.resp.body) <= 0)
     => m_availability' = "NoData"]_vars

----------------------------------------------------------------------------
(* Claims about the keys of any accepted buffer, checked under SpecRaw *)

\* C20: every key list DeserializeTrafficKeys returns is strictly
\* increasing in the order (m_fid, m_idx, m_dir), and a Coloring built from
\* it has as many entries as the list.
C20_DecodedKeysIncrease ==
  /\ (cx.kind = "keys" /\ cx.stage \in {"ok", "colored"})
        => KeyIsSorted(cx.outKeys)
  /\ (cx.kind = "keys" /\ cx.stage = "colored")
        => Cardinality(DOMAIN m_coloring) = Len(m_keys)

====
